---------------------------- MODULE Spec2Model ----------------------------
(***************************************************************************)
(* State-machine model of the SchoolGrader web application:                *)
(*   - the Compare view   (src/src/pages/ComparePage.tsx, ComparePage)     *)
(*   - the Search view    (src/src/pages/SearchPage.tsx, SearchPage)       *)
(* Each React component is modelled by its useState cells, its pending     *)
(* timers and its in-flight record-store requests; one action per event    *)
(* handler / timer callback / promise settlement, including the effects    *)
(* React runs after the render the handler causes.                         *)
(*                                                                         *)
(* Ratings are decimals with one fractional digit and are held in tenths   *)
(* (45 stands for 4.5).  Texts are sequences of characters.                *)
(***************************************************************************)
EXTENDS Integers, Sequences, FiniteSets, TLC

(***************************************************************************)
(* Bounds of the model.                                                    *)
(***************************************************************************)
\* longest text handed to the query builder
MaxTextLen == 2
\* requests the Compare view issues during one visit
MaxCmpRequests == 2
\* requests the Search view issues during one visit
MaxRequests == 2
\* requests the School-details view issues during one visit
MaxDetRequests == 4
\* records a view lists at a time while it is part of the whole App
MaxAppListed == 2
\* requests the Compare and the Search view issue during one visit, where
\* the clearing of the loading flags is followed to the end
MaxLoadRequests == 1

(***************************************************************************)
(* Texts and String.prototype.trim                                         *)
(***************************************************************************)
Chars == {" ", "a"}

IsSpace(c) == c = " "

Texts == UNION {[1..n -> Chars] : n \in 0..MaxTextLen}

RECURSIVE TrimStart(_)
TrimStart(t) ==
    IF t = <<>> THEN <<>>
    ELSE IF IsSpace(Head(t)) THEN TrimStart(Tail(t)) ELSE t

RECURSIVE TrimEnd(_)
TrimEnd(t) ==
    IF t = <<>> THEN <<>>
    ELSE IF IsSpace(t[Len(t)]) THEN TrimEnd(SubSeq(t, 1, Len(t) - 1)) ELSE t

\* the texts a user types in the model: the empty text, a blank one and a
\* non-blank one
TypedTexts == {<<>>, <<" ">>, <<"a">>}

\* searchQuery.trim()
Trim(t) == TrimEnd(TrimStart(t))

\* JavaScript truthiness of a string: non-empty
Truthy(t) == t # <<>>

(***************************************************************************)
(* The record store (external collaborator): the raw records of the        *)
(* `schools` collection.  A rating column may be absent (null/undefined).  *)
(***************************************************************************)
\* null / undefined in a numeric column
Absent == -1

RawSchool(id, type, grades, o, a, f, t, s, e, n) ==
    [id |-> id, school_type |-> type, grade_levels |-> grades,
     overall_rating |-> o, academics_rating |-> a, facilities_rating |-> f,
     teachers_rating |-> t, safety_rating |-> s,
     extracurriculars_rating |-> e, total_reviews |-> n]

\* the collection, in the order the store returns it (overall_rating desc)
Store ==
    << RawSchool("s1", "public",  "K-12", 45, 40, 45, 50, 35, 40, 12),
       RawSchool("s2", "private", "K-12", 45, 45, 30, 45, 35, 20, 7),
       RawSchool("s3", "charter", "Elementary (K-5)", 40, 45, 30, 35, 50, 40, 3),
       RawSchool("s4", "public",  "High School (9-12)", 30, 25, 30, 35, 40, 45, 1),
       RawSchool("s5", "public",  "Middle School (6-8)", Absent, Absent, Absent,
                 Absent, Absent, Absent, Absent) >>

SchoolIds == {Store[i].id : i \in 1..Len(Store)}

\* the answers of list() the model considers: the first k records of the
\* collection, for every k (no record, ..., all records)
Answers == {SubSeq(Store, 1, k) : k \in 0..Len(Store)}

\* what list() may answer under a limit
Responses(limit) == {res \in Answers : Len(res) <= limit}

Ids(s) == {s[i].id : i \in 1..Len(s)}

\* Array.prototype.filter with the predicate "id is not in `ids`"
RECURSIVE WithoutIds(_, _)
WithoutIds(s, ids) ==
    IF s = <<>> THEN <<>>
    ELSE (IF Head(s).id \in ids THEN <<>> ELSE <<Head(s)>>) \o WithoutIds(Tail(s), ids)

\* the text predicate both views send: name, city or address contains q
TextClause(q) ==
    <<[name |-> [contains |-> q]], [city |-> [contains |-> q]],
      [address |-> [contains |-> q]]>>

\* a number, as opposed to null/undefined
IsNumber(x) == x # Absent

(***************************************************************************)
(* Compare view: ComparePage                                               *)
(***************************************************************************)
VARIABLES
    selectedSchools,   \* useState<School[]>([])
    cmpSearchQuery,    \* useState('')        (searchQuery of ComparePage)
    searchResults,     \* useState<School[]>([])
    cmpLoading,        \* useState(false)     (loading of ComparePage)
    showSearch,        \* useState(false)
    cmpTimers,         \* pending setTimeout callbacks, each with the closure it captured
    cmpTimeoutId,      \* the timer handle the cleanup of the searchQuery effect holds:
                       \* the timer it would clear ({} once that timer has fired)
    cmpInflight,       \* list() promises not yet settled, each with what its
                       \* continuation reads of the closure: the selection's ids
    cmpIssued,         \* number of list() calls made so far (identifies the promises)
    cmpLastRequest,    \* history: the argument of the latest list() call (none: {})
    cmpCause,          \* history: what made the searchQuery effect run last
    cmpCrashed         \* a render of the view threw (React unmounts the tree)

cmpVars == <<selectedSchools, cmpSearchQuery, searchResults, cmpLoading, showSearch,
             cmpTimers, cmpTimeoutId, cmpInflight, cmpIssued, cmpLastRequest, cmpCause,
             cmpCrashed>>

\* the state cells of SearchPage
VARIABLES
    searchQuery,   \* useState(query)
    schools,       \* useState<School[]>([])
    loading,       \* useState(true)
    showFilters,   \* useState(false)
    filters,       \* useState<Filters>({schoolType: [], gradeLevel: '', minRating: 0, sortBy: 'rating'})
    inflight,      \* list() promises not yet settled
    issued,        \* number of list() calls made so far (identifies the promises)
    lastRequest,   \* history: the argument of the latest list() call (none: {})
    lastFulfilled  \* history: the latest fulfilled promise, its value and how many
                   \* promises were fulfilled up to it (none: {})

searchVars == <<searchQuery, schools, loading, showFilters, filters, inflight,
                issued, lastRequest, lastFulfilled>>

\* the star row a view rendered last
VARIABLES
    stars          \* none ({}), or the view, the rating passed and the five glyphs

starVars == <<stars>>

\* the state cells of HomePage
VARIABLES
    featuredSchools,  \* useState<School[]>([])
    homeLoading,      \* useState(true)     (loading of HomePage)
    homeInflight,     \* the list() promise of loadFeaturedSchools is not settled yet
    homeIssued,       \* number of list() calls made so far
    homeCrashed       \* a render of the view threw (React unmounts the tree)

homeVars == <<featuredSchools, homeLoading, homeInflight, homeIssued, homeCrashed>>

\* SchoolDetailsPage: its prop and its state cells
VARIABLES
    detSchoolId,      \* the prop schoolId ("" while the view is not mounted)
    detSchool,        \* useState<School | null>(null) (school): no record ({}) or one
    reviews,          \* useState<Review[]>([])
    detLoading,       \* useState(true)     (loading of SchoolDetailsPage)
    reviewsLoading,   \* useState(true)
    detInflight,      \* list() promises not yet settled: which collection, which id
    detIssued         \* number of list() calls made so far

detVars == <<detSchoolId, detSchool, reviews, detLoading, reviewsLoading, detInflight,
             detIssued>>

\* the state cells of App
VARIABLES
    user,             \* useState<User | null>(null): no user ({}) or one
    appLoading,       \* useState(true)     (loading of App)
    currentPage,      \* useState<Page>('home')
    selectedSchoolId, \* useState<string | null>(null); "" stands for null
    appSearchQuery,   \* useState('')       (searchQuery of App)
    leftSelected      \* history: the Compare view held a selection when it was
                      \* unmounted last

appVars == <<user, appLoading, currentPage, selectedSchoolId, appSearchQuery,
             leftSelected>>

\* what the actions of ComparePage leave alone, and those of SearchPage
cmpOthers == <<searchVars, starVars, homeVars, detVars, appVars>>

searchOthers == <<cmpVars, starVars, homeVars, detVars, appVars>>

\* the result mapping of ComparePage.searchSchools: rating columns are copied as they are
CompareSchool(r) ==
    [id |-> r.id, schoolType |-> r.school_type, gradeLevels |-> r.grade_levels,
     overallRating |-> r.overall_rating, academicsRating |-> r.academics_rating,
     facilitiesRating |-> r.facilities_rating, teachersRating |-> r.teachers_rating,
     safetyRating |-> r.safety_rating,
     extracurricularsRating |-> r.extracurriculars_rating,
     totalReviews |-> r.total_reviews]

RECURSIVE MapCompare(_)
MapCompare(res) ==
    IF res = <<>> THEN <<>> ELSE <<CompareSchool(Head(res))>> \o MapCompare(Tail(res))

\* the request ComparePage.searchSchools sends for the text q
CompareRequest(q) ==
    [where |-> [OR |-> TextClause(q)], orderBy |-> <<"overall_rating", "desc">>, limit |-> 10]

\* the closure of one render's searchSchools: the query it sees and, of the
\* selection it sees, the ids (all that searchSchools reads of it)
CmpClosure(q, sel) == [query |-> q, selectedIds |-> Ids(sel)]

\* the state of the mounted view, as one record
Cmp ==
    [selectedSchools |-> selectedSchools, searchQuery |-> cmpSearchQuery,
     searchResults |-> searchResults, loading |-> cmpLoading,
     showSearch |-> showSearch, timers |-> cmpTimers, timeoutId |-> cmpTimeoutId,
     inflight |-> cmpInflight, issued |-> cmpIssued,
     lastRequest |-> cmpLastRequest, cause |-> cmpCause]

\* the state of ComparePage right after mounting: the useState initial values,
\* and the timer the first run of the searchQuery effect sets
CmpMounted ==
    [selectedSchools |-> <<>>, searchQuery |-> <<>>, searchResults |-> <<>>,
     loading |-> FALSE, showSearch |-> FALSE,
     timers |-> {CmpClosure(<<>>, <<>>)}, timeoutId |-> {CmpClosure(<<>>, <<>>)},
     inflight |-> {}, issued |-> 0, lastRequest |-> {}, cause |-> "mount"]

\* the view after React has unmounted it: its state cells are gone, the effect
\* cleanup has cleared the timer, settling promises no longer reach it
CmpUnmounted ==
    [CmpMounted EXCEPT !.timers = {}, !.timeoutId = {}, !.cause = "unmount"]

\* clearTimeout(timeoutId)
clearTimeout(timers, id) == timers \ id

\* the searchQuery effect returning no cleanup: the previous timer stays pending
SearchQueryEffectNoCleanup(old, n, cause) ==
    IF n.searchQuery = old.searchQuery THEN n
    ELSE LET c == CmpClosure(n.searchQuery, n.selectedSchools)
         IN [n EXCEPT !.timers = n.timers \cup {c},
                      !.timeoutId = {c},
                      !.cause = cause]

\* the searchQuery effect (useEffect with [searchQuery]): when searchQuery differs
\* from the previous render's, the previous run's cleanup clears its timer and a
\* new 300ms timer is set whose callback calls this render's searchSchools
SearchQueryEffect(old, n, cause) ==
    IF n.searchQuery = old.searchQuery THEN n
    ELSE LET c == CmpClosure(n.searchQuery, n.selectedSchools)
         IN [n EXCEPT !.timers = clearTimeout(n.timers, old.timeoutId) \cup {c},
                      !.timeoutId = {c},
                      !.cause = cause]

\* onChange of the search box: setSearchQuery(e.target.value); setShowSearch(true)
onChange(st, q) == [st EXCEPT !.searchQuery = q, !.showSearch = TRUE]

\* addSchool without the test for a member with the same id
addSchoolNoIdCheck(st, school) ==
    IF Len(st.selectedSchools) < 4
    THEN [st EXCEPT !.selectedSchools = Append(st.selectedSchools, school),
                    !.searchResults = WithoutIds(st.searchResults, {school.id}),
                    !.searchQuery = <<>>,
                    !.showSearch = FALSE]
    ELSE st

\* addSchool putting the new member first
addSchoolPrepends(st, school) ==
    IF Len(st.selectedSchools) < 4 /\ school.id \notin Ids(st.selectedSchools)
    THEN [st EXCEPT !.selectedSchools = <<school>> \o st.selectedSchools,
                    !.searchResults = WithoutIds(st.searchResults, {school.id}),
                    !.searchQuery = <<>>,
                    !.showSearch = FALSE]
    ELSE st

\* addSchool closing the search box before it tests the selection
addSchoolAlwaysCloses(st, school) ==
    IF Len(st.selectedSchools) < 4 /\ school.id \notin Ids(st.selectedSchools)
    THEN [st EXCEPT !.selectedSchools = Append(st.selectedSchools, school),
                    !.searchResults = WithoutIds(st.searchResults, {school.id}),
                    !.searchQuery = <<>>,
                    !.showSearch = FALSE]
    ELSE [st EXCEPT !.searchQuery = <<>>, !.showSearch = FALSE]

\* addSchool(school)
addSchool(st, school) ==
    IF Len(st.selectedSchools) < 4 /\ school.id \notin Ids(st.selectedSchools)
    THEN [st EXCEPT !.selectedSchools = Append(st.selectedSchools, school),
                    !.searchResults = WithoutIds(st.searchResults, {school.id}),
                    !.searchQuery = <<>>,
                    !.showSearch = FALSE]
    ELSE st

\* removeSchool with the filter predicate inverted
removeSchoolKeepsMatch(st, schoolId) ==
    [st EXCEPT !.selectedSchools =
        WithoutIds(st.selectedSchools, Ids(st.selectedSchools) \ {schoolId})]

\* removeSchool(schoolId)
removeSchool(st, schoolId) ==
    [st EXCEPT !.selectedSchools = WithoutIds(st.selectedSchools, {schoolId})]

\* a searchSchools() that also clears loading when the text is blank
searchSchoolsBlankStopsLoading(st, c) ==
    IF ~Truthy(Trim(c.query))
    THEN [st EXCEPT !.searchResults = <<>>, !.loading = FALSE]
    ELSE [st EXCEPT !.loading = TRUE,
                    !.issued = st.issued + 1,
                    !.lastRequest = {CompareRequest(c.query)},
                    !.inflight = st.inflight \cup
                        {[gen |-> st.issued + 1, selectedIds |-> c.selectedIds]}]

\* searchSchools() of the render with closure c, up to the await
searchSchools(st, c) ==
    IF ~Truthy(Trim(c.query))
    THEN [st EXCEPT !.searchResults = <<>>]
    ELSE [st EXCEPT !.loading = TRUE,
                    !.issued = st.issued + 1,
                    !.lastRequest = {CompareRequest(c.query)},
                    !.inflight = st.inflight \cup
                        {[gen |-> st.issued + 1, selectedIds |-> c.selectedIds]}]

\* searchSchools() after the await, the promise r fulfilled with res
searchSchoolsResolved(st, r, res) ==
    [st EXCEPT !.searchResults = WithoutIds(MapCompare(res), r.selectedIds),
               !.loading = FALSE,
               !.inflight = st.inflight \ {r}]

\* searchSchools() after the await, the promise r rejected: catch logs, finally
\* clears loading
searchSchoolsRejected(st, r) ==
    [st EXCEPT !.loading = FALSE, !.inflight = st.inflight \ {r}]

\* the rating fields of School that the comparison table shows
RatingCategories ==
    {"overallRating", "academicsRating", "teachersRating", "facilitiesRating",
     "safetyRating", "extracurricularsRating"}

\* ToNumber of a rating: a number is itself, null is 0
ToNumber(x) == IF IsNumber(x) THEN x ELSE 0

\* Math.max(...values) for a non-empty list of values
RECURSIVE MathMax(_)
MathMax(values) ==
    IF Len(values) = 1 THEN ToNumber(Head(values))
    ELSE LET m == MathMax(Tail(values))
         IN IF ToNumber(Head(values)) > m THEN ToNumber(Head(values)) ELSE m

\* selectedSchools.map(school => school[category])
RECURSIVE Column(_, _)
Column(sel, category) ==
    IF sel = <<>> THEN <<>> ELSE <<Head(sel)[category]>> \o Column(Tail(sel), category)

\* getHighestRating taking the first member's value for the highest
getHighestRatingFirst(st, category) ==
    IF Len(st.selectedSchools) = 0 THEN 0
    ELSE ToNumber(Head(Column(st.selectedSchools, category)))

\* getHighestRating(category)
getHighestRating(st, category) ==
    IF Len(st.selectedSchools) = 0 THEN 0
    ELSE MathMax(Column(st.selectedSchools, category))

\* getRatingColor(rating)
getRatingColor(rating) ==
    IF rating >= 45 THEN "text-green-600"
    ELSE IF rating >= 40 THEN "text-green-500"
    ELSE IF rating >= 35 THEN "text-yellow-500"
    ELSE IF rating >= 30 THEN "text-orange-500"
    ELSE "text-red-500"

\* the comparison table is rendered
TableRendered(st) == Len(st.selectedSchools) > 1

\* the colour class of the cell of member i in the row of a rating category
CellClass(st, i, category) ==
    IF st.selectedSchools[i][category] = getHighestRating(st, category)
    THEN "text-green-600"
    ELSE getRatingColor(st.selectedSchools[i][category])

\* x.toFixed(1) throws when x is null/undefined
ToFixedThrows(x) == ~IsNumber(x)

\* the search box and its result list are rendered
SearchBoxRendered(st) == Len(st.selectedSchools) < 4

DropdownRendered(st) ==
    SearchBoxRendered(st) /\ st.showSearch /\ Truthy(st.searchQuery)

LoadingDisplayed(st) == DropdownRendered(st) /\ st.loading

ResultsDisplayed(st) ==
    DropdownRendered(st) /\ ~st.loading /\ st.searchResults # <<>>

\* rendering ComparePage in state st throws
CompareRenderThrows(st) ==
    \/ /\ ResultsDisplayed(st)
       /\ \E i \in 1..Len(st.searchResults) :
             ToFixedThrows(st.searchResults[i].overallRating)
    \/ \E i \in 1..Len(st.selectedSchools) :
          ToFixedThrows(st.selectedSchools[i].overallRating)
    \/ /\ Len(st.selectedSchools) > 1
       /\ \E i \in 1..Len(st.selectedSchools) :
             \/ ToFixedThrows(st.selectedSchools[i].academicsRating)
             \/ ToFixedThrows(st.selectedSchools[i].teachersRating)
             \/ ToFixedThrows(st.selectedSchools[i].facilitiesRating)
             \/ ToFixedThrows(st.selectedSchools[i].safetyRating)
             \/ ToFixedThrows(st.selectedSchools[i].extracurricularsRating)

\* the state cells take the values of st
CmpSet(st) ==
    /\ selectedSchools' = st.selectedSchools
    /\ cmpSearchQuery' = st.searchQuery
    /\ searchResults' = st.searchResults
    /\ cmpLoading' = st.loading
    /\ showSearch' = st.showSearch
    /\ cmpTimers' = st.timers
    /\ cmpTimeoutId' = st.timeoutId
    /\ cmpInflight' = st.inflight
    /\ cmpIssued' = st.issued
    /\ cmpLastRequest' = st.lastRequest
    /\ cmpCause' = st.cause

\* React renders the state a handler left; a render that throws (no error
\* boundary in App) unmounts the whole tree
CmpRender(st) ==
    IF CompareRenderThrows(st)
    THEN CmpSet(CmpUnmounted) /\ cmpCrashed' = TRUE
    ELSE CmpSet(st) /\ cmpCrashed' = FALSE

CompareInit ==
    /\ selectedSchools = CmpMounted.selectedSchools
    /\ cmpSearchQuery = CmpMounted.searchQuery
    /\ searchResults = CmpMounted.searchResults
    /\ cmpLoading = CmpMounted.loading
    /\ showSearch = CmpMounted.showSearch
    /\ cmpTimers = CmpMounted.timers
    /\ cmpTimeoutId = CmpMounted.timeoutId
    /\ cmpInflight = CmpMounted.inflight
    /\ cmpIssued = CmpMounted.issued
    /\ cmpLastRequest = CmpMounted.lastRequest
    /\ cmpCause = CmpMounted.cause
    /\ cmpCrashed = FALSE

\* the user changes the text of the search box
CmpSetQuery(q) ==
    /\ ~cmpCrashed
    /\ SearchBoxRendered(Cmp)
    /\ q # cmpSearchQuery
    /\ CmpRender(SearchQueryEffect(Cmp, onChange(Cmp, q), "onChange"))
    /\ UNCHANGED cmpOthers

\* onFocus of the search box
CmpFocus ==
    /\ ~cmpCrashed
    /\ SearchBoxRendered(Cmp)
    /\ CmpRender([Cmp EXCEPT !.showSearch = TRUE])
    /\ UNCHANGED cmpOthers

\* click on the overlay behind the result list
CmpClickOutside ==
    /\ ~cmpCrashed
    /\ showSearch
    /\ CmpRender([Cmp EXCEPT !.showSearch = FALSE])
    /\ UNCHANGED cmpOthers

\* the debounce timer t elapses and calls searchSchools of the render that set it
CmpTimerFire(t) ==
    /\ ~cmpCrashed
    /\ t \in cmpTimers
    /\ Truthy(Trim(t.query)) => cmpIssued < MaxCmpRequests
    /\ CmpRender(searchSchools([Cmp EXCEPT !.timers = cmpTimers \ {t},
                                            !.timeoutId = cmpTimeoutId \ {t}], t))
    /\ UNCHANGED cmpOthers

\* the list() promise r is fulfilled with res
CmpResolve(r, res) ==
    /\ ~cmpCrashed
    /\ r \in cmpInflight
    /\ res \in Responses(CompareRequest(<<>>).limit)
    /\ CmpRender(searchSchoolsResolved(Cmp, r, res))
    /\ UNCHANGED cmpOthers

\* the list() promise r is rejected
CmpReject(r) ==
    /\ ~cmpCrashed
    /\ r \in cmpInflight
    /\ CmpRender(searchSchoolsRejected(Cmp, r))
    /\ UNCHANGED cmpOthers

\* click on a displayed search result
AddSchool(school) ==
    /\ ~cmpCrashed
    /\ ResultsDisplayed(Cmp)
    /\ \E i \in 1..Len(searchResults) : searchResults[i] = school
    /\ CmpRender(SearchQueryEffect(Cmp, addSchool(Cmp, school), "addSchool"))
    /\ UNCHANGED cmpOthers

\* click on the remove button of a selected school
RemoveSchool(schoolId) ==
    /\ ~cmpCrashed
    /\ schoolId \in Ids(selectedSchools)
    /\ CmpRender(removeSchool(Cmp, schoolId))
    /\ UNCHANGED cmpOthers

CompareNext ==
    \/ \E q \in TypedTexts : CmpSetQuery(q)
    \/ CmpFocus
    \/ CmpClickOutside
    \/ \E t \in cmpTimers : CmpTimerFire(t)
    \/ \E r \in cmpInflight : \E res \in Answers : CmpResolve(r, res)
    \/ \E r \in cmpInflight : CmpReject(r)
    \/ \E i \in 1..Len(searchResults) : AddSchool(searchResults[i])
    \/ \E id \in SchoolIds : RemoveSchool(id)

(***************************************************************************)
(* Search view: SearchPage                                                 *)
(***************************************************************************)
schoolTypes == <<"public", "private", "charter">>

gradeLevels ==
    <<"Elementary (K-5)", "Middle School (6-8)", "High School (9-12)", "K-12">>

sortOptions == <<"rating", "reviews", "name">>

\* the values of the "Minimum Rating" select: 0, 3, 4, 4.5
minRatingOptions == <<0, 30, 40, 45>>

Range(s) == {s[i] : i \in 1..Len(s)}

DefaultFilters ==
    [schoolType |-> <<>>, gradeLevel |-> "", minRating |-> 0, sortBy |-> "rating"]

\* Array.prototype.filter(t => t !== type)
RECURSIVE WithoutType(_, _)
WithoutType(s, type) ==
    IF s = <<>> THEN <<>>
    ELSE (IF Head(s) = type THEN <<>> ELSE <<Head(s)>>) \o WithoutType(Tail(s), type)

\* whereClause testing the text without trimming it
whereClauseNoTrim(q, f) ==
    [OR |-> IF Truthy(q) THEN {TextClause(q)} ELSE {},
     school_type |-> IF Len(f.schoolType) > 0 THEN {[in |-> f.schoolType]} ELSE {},
     grade_levels |-> IF f.gradeLevel # "" THEN {[contains |-> f.gradeLevel]} ELSE {},
     overall_rating |-> IF f.minRating > 0 THEN {[gte |-> f.minRating]} ELSE {}]

\* whereClause as searchSchools builds it; a key that was not assigned holds {}
whereClause(q, f) ==
    [OR |-> IF Truthy(Trim(q)) THEN {TextClause(q)} ELSE {},
     school_type |-> IF Len(f.schoolType) > 0 THEN {[in |-> f.schoolType]} ELSE {},
     grade_levels |-> IF f.gradeLevel # "" THEN {[contains |-> f.gradeLevel]} ELSE {},
     overall_rating |-> IF f.minRating > 0 THEN {[gte |-> f.minRating]} ELSE {}]

WhereKeys == {"OR", "school_type", "grade_levels", "overall_rating"}

\* Object.keys(whereClause)
Keys(w) == {k \in WhereKeys : w[k] # {}}

\* the switch on filters.sortBy without its default branch
orderByNoDefault(f) ==
    CASE f.sortBy = "rating" -> <<"overall_rating", "desc">>
      [] f.sortBy = "reviews" -> <<"total_reviews", "desc">>
      [] f.sortBy = "name" -> <<"name", "asc">>
      [] OTHER -> <<>>

\* the switch on filters.sortBy
orderBy(f) ==
    CASE f.sortBy = "rating" -> <<"overall_rating", "desc">>
      [] f.sortBy = "reviews" -> <<"total_reviews", "desc">>
      [] f.sortBy = "name" -> <<"name", "asc">>
      [] OTHER -> <<"overall_rating", "desc">>

\* a request whose limit grows with the filters
SearchRequestWide(q, f) ==
    [where |-> IF Cardinality(Keys(whereClause(q, f))) > 0
               THEN {whereClause(q, f)} ELSE {},
     orderBy |-> orderBy(f),
     limit |-> IF f.sortBy = "name" THEN 100 ELSE 50]

\* the argument of blink.db.schools.list(); where: undefined is {}
SearchRequest(q, f) ==
    [where |-> IF Cardinality(Keys(whereClause(q, f))) > 0
               THEN {whereClause(q, f)} ELSE {},
     orderBy |-> orderBy(f),
     limit |-> 50]

\* x || 0
OrZero(x) == IF ~IsNumber(x) \/ x = 0 THEN 0 ELSE x

\* the result mapping of SearchPage.searchSchools
SearchSchool(r) ==
    [id |-> r.id, schoolType |-> r.school_type, gradeLevels |-> r.grade_levels,
     overallRating |-> OrZero(r.overall_rating),
     totalReviews |-> OrZero(r.total_reviews)]

RECURSIVE MapSearch(_)
MapSearch(res) ==
    IF res = <<>> THEN <<>> ELSE <<SearchSchool(Head(res))>> \o MapSearch(Tail(res))

\* the state of the mounted view, as one record
Srch ==
    [searchQuery |-> searchQuery, schools |-> schools, loading |-> loading,
     showFilters |-> showFilters, filters |-> filters, inflight |-> inflight,
     issued |-> issued, lastRequest |-> lastRequest, lastFulfilled |-> lastFulfilled]

\* SearchPage.searchSchools() up to the await
searchSchoolsCall(st) ==
    [st EXCEPT !.loading = TRUE,
               !.issued = st.issued + 1,
               !.inflight = st.inflight \cup
                   {[gen |-> st.issued + 1,
                     request |-> SearchRequest(st.searchQuery, st.filters)]},
               !.lastRequest = {SearchRequest(st.searchQuery, st.filters)}]

\* history: the number of promises fulfilled so far
Fulfilments(st) == IF st.lastFulfilled = {} THEN 0 ELSE (CHOOSE lf \in st.lastFulfilled : TRUE).nth

\* searchSchools() with request fencing: the value of a promise that is not the
\* latest one issued is discarded
searchFulfilledFenced(st, r, res) ==
    [st EXCEPT !.schools = IF r.gen = st.issued THEN MapSearch(res) ELSE st.schools,
               !.loading = FALSE,
               !.inflight = st.inflight \ {r},
               !.lastFulfilled = {[gen |-> r.gen, request |-> r.request, value |-> res,
                                   nth |-> Fulfilments(st) + 1]}]

\* SearchPage.searchSchools() after the await, the promise r fulfilled with res
searchFulfilled(st, r, res) ==
    [st EXCEPT !.schools = MapSearch(res),
               !.loading = FALSE,
               !.inflight = st.inflight \ {r},
               !.lastFulfilled = {[gen |-> r.gen, request |-> r.request, value |-> res,
                                   nth |-> Fulfilments(st) + 1]}]

\* a searchSchools() without its finally block
searchRejectedNoFinally(st, r) == [st EXCEPT !.inflight = st.inflight \ {r}]

\* SearchPage.searchSchools() after the await, the promise r rejected
searchRejected(st, r) ==
    [st EXCEPT !.loading = FALSE, !.inflight = st.inflight \ {r}]

\* an effect that leaves the query to a later moment
SearchEffectDeferred(st) == st

\* useEffect(() => { searchSchools() }, [searchSchools]): searchSchools is a new
\* function whenever searchQuery changed or filters is a new object
SearchEffect(st) == searchSchoolsCall(st)

\* the state of SearchPage right after mounting with the prop query
SearchMounted(query) ==
    SearchEffect([searchQuery |-> query, schools |-> <<>>, loading |-> TRUE,
                  showFilters |-> FALSE, filters |-> DefaultFilters,
                  inflight |-> {}, issued |-> 0, lastRequest |-> {},
                  lastFulfilled |-> {}])

\* handleSchoolTypeChange(type, checked)
handleSchoolTypeChange(st, type, checked) ==
    [st EXCEPT !.filters.schoolType =
        IF checked THEN Append(st.filters.schoolType, type)
        ELSE WithoutType(st.filters.schoolType, type)]

\* a clearFilters that keeps the sort order
clearFiltersKeepsSort(st) ==
    [st EXCEPT !.filters = [DefaultFilters EXCEPT !.sortBy = st.filters.sortBy]]

\* clearFilters()
clearFilters(st) == [st EXCEPT !.filters = DefaultFilters]

SearchSet(st) ==
    /\ searchQuery' = st.searchQuery
    /\ schools' = st.schools
    /\ loading' = st.loading
    /\ showFilters' = st.showFilters
    /\ filters' = st.filters
    /\ inflight' = st.inflight
    /\ issued' = st.issued
    /\ lastRequest' = st.lastRequest
    /\ lastFulfilled' = st.lastFulfilled

SearchInit ==
    \E query \in TypedTexts :
        /\ searchQuery = SearchMounted(query).searchQuery
        /\ schools = SearchMounted(query).schools
        /\ loading = SearchMounted(query).loading
        /\ showFilters = SearchMounted(query).showFilters
        /\ filters = SearchMounted(query).filters
        /\ inflight = SearchMounted(query).inflight
        /\ issued = SearchMounted(query).issued
        /\ lastRequest = SearchMounted(query).lastRequest
        /\ lastFulfilled = SearchMounted(query).lastFulfilled

\* the "no results" panel is rendered (it carries a Clear Filters button)
NoResultsDisplayed(st) == ~st.loading /\ st.schools = <<>>

\* the user changes the text of the search input
SetSearchQuery(q) ==
    /\ q # searchQuery
    /\ issued < MaxRequests
    /\ SearchSet(SearchEffect([Srch EXCEPT !.searchQuery = q]))
    /\ UNCHANGED searchOthers

\* submit of the search form: handleSearch
HandleSearch ==
    /\ issued < MaxRequests
    /\ SearchSet(searchSchoolsCall(Srch))
    /\ UNCHANGED searchOthers

\* click on the Filters button
ToggleFilters ==
    /\ SearchSet([Srch EXCEPT !.showFilters = ~showFilters])
    /\ UNCHANGED searchOthers

\* click on a school-type checkbox
ToggleSchoolType(type) ==
    /\ showFilters
    /\ issued < MaxRequests
    /\ SearchSet(SearchEffect(
           handleSchoolTypeChange(Srch, type, type \notin Range(filters.schoolType))))
    /\ UNCHANGED searchOthers

\* a new value is chosen in the Grade Level select
SetGradeLevel(g) ==
    /\ showFilters
    /\ g # filters.gradeLevel
    /\ issued < MaxRequests
    /\ SearchSet(SearchEffect([Srch EXCEPT !.filters.gradeLevel = g]))
    /\ UNCHANGED searchOthers

\* a new value is chosen in the Minimum Rating select
SetMinRating(m) ==
    /\ showFilters
    /\ m # filters.minRating
    /\ issued < MaxRequests
    /\ SearchSet(SearchEffect([Srch EXCEPT !.filters.minRating = m]))
    /\ UNCHANGED searchOthers

\* a new value is chosen in the Sort By select
SetSortBy(v) ==
    /\ showFilters
    /\ v # filters.sortBy
    /\ issued < MaxRequests
    /\ SearchSet(SearchEffect([Srch EXCEPT !.filters.sortBy = v]))
    /\ UNCHANGED searchOthers

\* click on Clear All (filters panel) or Clear Filters ("no results" panel)
ClearFilters ==
    /\ showFilters \/ NoResultsDisplayed(Srch)
    /\ issued < MaxRequests
    /\ SearchSet(SearchEffect(clearFilters(Srch)))
    /\ UNCHANGED searchOthers

\* the list() promise r is fulfilled with res
SearchResolve(r, res) ==
    /\ r \in inflight
    /\ res \in Responses(r.request.limit)
    /\ SearchSet(searchFulfilled(Srch, r, res))
    /\ UNCHANGED searchOthers

\* the list() promise r is rejected
SearchReject(r) ==
    /\ r \in inflight
    /\ SearchSet(searchRejected(Srch, r))
    /\ UNCHANGED searchOthers

SearchNext ==
    \/ \E q \in TypedTexts : SetSearchQuery(q)
    \/ HandleSearch
    \/ ToggleFilters
    \/ \E type \in Range(schoolTypes) : ToggleSchoolType(type)
    \/ \E g \in {""} \cup Range(gradeLevels) : SetGradeLevel(g)
    \/ \E m \in Range(minRatingOptions) : SetMinRating(m)
    \/ \E v \in Range(sortOptions) : SetSortBy(v)
    \/ ClearFilters
    \/ \E r \in inflight : \E res \in Answers : SearchResolve(r, res)
    \/ \E r \in inflight : SearchReject(r)

\* the view is not mounted: it has no state
SearchUnmounted ==
    [searchQuery |-> <<>>, schools |-> <<>>, loading |-> FALSE,
     showFilters |-> FALSE, filters |-> DefaultFilters, inflight |-> {},
     issued |-> 0, lastRequest |-> {}, lastFulfilled |-> {}]

SearchAbsent ==
    /\ searchQuery = SearchUnmounted.searchQuery
    /\ schools = SearchUnmounted.schools
    /\ loading = SearchUnmounted.loading
    /\ showFilters = SearchUnmounted.showFilters
    /\ filters = SearchUnmounted.filters
    /\ inflight = SearchUnmounted.inflight
    /\ issued = SearchUnmounted.issued
    /\ lastRequest = SearchUnmounted.lastRequest
    /\ lastFulfilled = SearchUnmounted.lastFulfilled

CompareAbsent ==
    /\ selectedSchools = CmpUnmounted.selectedSchools
    /\ cmpSearchQuery = CmpUnmounted.searchQuery
    /\ searchResults = CmpUnmounted.searchResults
    /\ cmpLoading = CmpUnmounted.loading
    /\ showSearch = CmpUnmounted.showSearch
    /\ cmpTimers = CmpUnmounted.timers
    /\ cmpTimeoutId = CmpUnmounted.timeoutId
    /\ cmpInflight = CmpUnmounted.inflight
    /\ cmpIssued = CmpUnmounted.issued
    /\ cmpLastRequest = CmpUnmounted.lastRequest
    /\ cmpCause = CmpUnmounted.cause
    /\ cmpCrashed = FALSE

(***************************************************************************)
(* Home view: HomePage                                                     *)
(***************************************************************************)
\* the argument of list() in loadFeaturedSchools
HomeRequest == [orderBy |-> [overallRating |-> "desc"], limit |-> 6]

\* the result mapping of loadFeaturedSchools: columns are copied as they are
HomeSchool(r) ==
    [id |-> r.id, schoolType |-> r.school_type, gradeLevels |-> r.grade_levels,
     overallRating |-> r.overall_rating, totalReviews |-> r.total_reviews]

RECURSIVE MapHome(_)
MapHome(res) ==
    IF res = <<>> THEN <<>> ELSE <<HomeSchool(Head(res))>> \o MapHome(Tail(res))

\* the state of the mounted view, as one record
Home ==
    [featuredSchools |-> featuredSchools, loading |-> homeLoading,
     inflight |-> homeInflight, issued |-> homeIssued]

\* HomePage right after mounting: the useState initial values, and the effect
\* has called loadFeaturedSchools()
HomeMounted ==
    [featuredSchools |-> <<>>, loading |-> TRUE, inflight |-> TRUE, issued |-> 1]

\* the view is not mounted: it has no state, settling promises no longer reach it
HomeUnmounted ==
    [featuredSchools |-> <<>>, loading |-> FALSE, inflight |-> FALSE, issued |-> 0]

\* loadFeaturedSchools() after the await, the promise fulfilled with res
loadFeaturedResolved(st, res) ==
    [st EXCEPT !.featuredSchools = MapHome(res), !.loading = FALSE, !.inflight = FALSE]

\* loadFeaturedSchools() after the await, the promise rejected
loadFeaturedRejected(st) == [st EXCEPT !.loading = FALSE, !.inflight = FALSE]

\* rendering HomePage in state st throws: school.overallRating.toFixed(1)
HomeRenderThrows(st) ==
    /\ ~st.loading
    /\ \E i \in 1..Len(st.featuredSchools) :
          ToFixedThrows(st.featuredSchools[i].overallRating)

HomeSet(st) ==
    /\ featuredSchools' = st.featuredSchools
    /\ homeLoading' = st.loading
    /\ homeInflight' = st.inflight
    /\ homeIssued' = st.issued

\* React renders the state a continuation left; a render that throws unmounts
\* the whole tree
HomeRender(st) ==
    IF HomeRenderThrows(st)
    THEN HomeSet(HomeUnmounted) /\ homeCrashed' = TRUE
    ELSE HomeSet(st) /\ homeCrashed' = FALSE

HomeAbsent ==
    /\ featuredSchools = HomeUnmounted.featuredSchools
    /\ homeLoading = HomeUnmounted.loading
    /\ homeInflight = HomeUnmounted.inflight
    /\ homeIssued = HomeUnmounted.issued
    /\ homeCrashed = FALSE

(***************************************************************************)
(* School-details view: SchoolDetailsPage.  The record store holds a       *)
(* `reviews` collection next to `schools`.                                 *)
(***************************************************************************)
RawReview(id, schoolId, o, w) ==
    [id |-> id, school_id |-> schoolId, overall_rating |-> o, would_recommend |-> w]

\* the reviews collection, in the order the store returns it (created_at desc)
ReviewStore ==
    << RawReview("r1", "s1", 50, 1),
       RawReview("r2", "s1", Absent, 0),
       RawReview("r3", "s1", 40, Absent) >>

\* the records of a collection that the predicate {id: schoolId} selects
SchoolsWithId(id) == SelectSeq(Store, LAMBDA r : r.id = id)

ReviewsOf(id) == SelectSeq(ReviewStore, LAMBDA r : r.school_id = id)

\* what schools.list({where: {id}, limit: 1}) may answer: the record with that
\* id, or none
SchoolAnswers(id) == {<<>>, SchoolsWithId(id)}

\* what reviews.list({where: {school_id: id}, ..., limit: 20}) may answer: the
\* first k reviews of that school
ReviewAnswers(id) == {SubSeq(ReviewsOf(id), 1, k) : k \in 0..Len(ReviewsOf(id))}

\* the mapping of loadSchoolDetails
DetailsSchool(r) ==
    [id |-> r.id, schoolType |-> r.school_type, gradeLevels |-> r.grade_levels,
     overallRating |-> OrZero(r.overall_rating),
     academicsRating |-> OrZero(r.academics_rating),
     facilitiesRating |-> OrZero(r.facilities_rating),
     teachersRating |-> OrZero(r.teachers_rating),
     safetyRating |-> OrZero(r.safety_rating),
     extracurricularsRating |-> OrZero(r.extracurriculars_rating),
     totalReviews |-> OrZero(r.total_reviews)]

\* a mapping that takes every value but 0 for a recommendation
DetailsReviewNonZero(r) ==
    [id |-> r.id, overallRating |-> OrZero(r.overall_rating),
     wouldRecommend |-> r.would_recommend # 0]

\* the mapping of loadReviews
DetailsReview(r) ==
    [id |-> r.id, overallRating |-> OrZero(r.overall_rating),
     wouldRecommend |-> ToNumber(r.would_recommend) > 0]

RECURSIVE MapReviews(_)
MapReviews(res) ==
    IF res = <<>> THEN <<>> ELSE <<DetailsReview(Head(res))>> \o MapReviews(Tail(res))

\* the state of the mounted view, as one record
Det ==
    [schoolId |-> detSchoolId, school |-> detSchool, reviews |-> reviews,
     loading |-> detLoading, reviewsLoading |-> reviewsLoading,
     inflight |-> detInflight, issued |-> detIssued]

\* useEffect(() => { loadSchoolDetails(); loadReviews() }, [schoolId]): both
\* loaders up to their await
DetailsEffect(st) ==
    [st EXCEPT !.inflight = st.inflight \cup
                   {[collection |-> "schools", id |-> st.schoolId],
                    [collection |-> "reviews", id |-> st.schoolId]},
               !.issued = st.issued + 2]

\* SchoolDetailsPage right after mounting with the prop schoolId
DetailsMounted(schoolId) ==
    DetailsEffect([schoolId |-> schoolId, school |-> {}, reviews |-> <<>>,
                   loading |-> TRUE, reviewsLoading |-> TRUE, inflight |-> {},
                   issued |-> 0])

\* the view is not mounted: it has no state, settling promises no longer reach it
DetailsUnmounted ==
    [schoolId |-> "", school |-> {}, reviews |-> <<>>, loading |-> FALSE,
     reviewsLoading |-> FALSE, inflight |-> {}, issued |-> 0]

\* a mapping that takes the first record whatever was answered
loadSchoolDetailsAnyRecord(st, r, res) ==
    [st EXCEPT !.school = {DetailsSchool(Store[1])},
               !.loading = FALSE,
               !.inflight = st.inflight \ {r}]

\* loadSchoolDetails() after the await, the promise r fulfilled with res
loadSchoolDetailsResolved(st, r, res) ==
    [st EXCEPT !.school = IF Len(res) > 0 THEN {DetailsSchool(res[1])} ELSE st.school,
               !.loading = FALSE,
               !.inflight = st.inflight \ {r}]

\* loadSchoolDetails() after the await, the promise r rejected
loadSchoolDetailsRejected(st, r) ==
    [st EXCEPT !.loading = FALSE, !.inflight = st.inflight \ {r}]

\* loadReviews() after the await, the promise r fulfilled with res
loadReviewsResolved(st, r, res) ==
    [st EXCEPT !.reviews = MapReviews(res),
               !.reviewsLoading = FALSE,
               !.inflight = st.inflight \ {r}]

\* loadReviews() after the await, the promise r rejected
loadReviewsRejected(st, r) ==
    [st EXCEPT !.reviewsLoading = FALSE, !.inflight = st.inflight \ {r}]

\* what SchoolDetailsPage returns: the skeleton, the "not found" screen (with
\* its Back to Search button), or the details of `school`
SkeletonDisplayed(st) == st.loading

NotFoundDisplayed(st) == ~st.loading /\ st.school = {}

DetailsDisplayed(st) == ~st.loading /\ st.school # {}

DetSet(st) ==
    /\ detSchoolId' = st.schoolId
    /\ detSchool' = st.school
    /\ reviews' = st.reviews
    /\ detLoading' = st.loading
    /\ reviewsLoading' = st.reviewsLoading
    /\ detInflight' = st.inflight
    /\ detIssued' = st.issued

DetailsAbsent ==
    /\ detSchoolId = DetailsUnmounted.schoolId
    /\ detSchool = DetailsUnmounted.school
    /\ reviews = DetailsUnmounted.reviews
    /\ detLoading = DetailsUnmounted.loading
    /\ reviewsLoading = DetailsUnmounted.reviewsLoading
    /\ detInflight = DetailsUnmounted.inflight
    /\ detIssued = DetailsUnmounted.issued

(***************************************************************************)
(* App: the auth gate and the router.  Optional arguments of navigateTo    *)
(* are sets of at most one value ({} is undefined).                        *)
(***************************************************************************)
Pages == {"home", "search", "school", "compare"}

\* the users the auth service may report
Users == {"u1"}

\* the state of App, as one record
App ==
    [user |-> user, loading |-> appLoading, currentPage |-> currentPage,
     selectedSchoolId |-> selectedSchoolId, searchQuery |-> appSearchQuery]

\* the useState initial values of App
AppConstructed ==
    [user |-> {}, loading |-> TRUE, currentPage |-> "home",
     selectedSchoolId |-> "", searchQuery |-> <<>>]

\* the callback given to blink.auth.onAuthStateChanged
onAuthStateChanged(app, u, isLoading) == [app EXCEPT !.user = u, !.loading = isLoading]

\* a router that refuses the school page when it has no school id
navigateToValidated(app, page, schoolId, query) ==
    [app EXCEPT !.currentPage =
                    IF page = "school" /\ schoolId \subseteq {""} /\ app.selectedSchoolId = ""
                    THEN @ ELSE page,
                !.selectedSchoolId =
                    IF schoolId \subseteq {""} THEN @ ELSE CHOOSE id \in schoolId : TRUE,
                !.searchQuery = IF query = {} THEN @ ELSE CHOOSE q \in query : TRUE]

\* a router that clears the root searchQuery when it is given no query
navigateToResets(app, page, schoolId, query) ==
    [app EXCEPT !.currentPage = page,
                !.selectedSchoolId =
                    IF schoolId \subseteq {""} THEN @ ELSE CHOOSE id \in schoolId : TRUE,
                !.searchQuery = IF query = {} THEN <<>> ELSE CHOOSE q \in query : TRUE]

\* navigateTo(page, schoolId?, query?)
navigateTo(app, page, schoolId, query) ==
    [app EXCEPT !.currentPage = page,
                !.selectedSchoolId =
                    IF schoolId \subseteq {""} THEN @ ELSE CHOOSE id \in schoolId : TRUE,
                !.searchQuery = IF query = {} THEN @ ELSE CHOOSE q \in query : TRUE]

\* a renderPage that gives the school page its view whatever the id
ViewSchoolAlways(app) ==
    IF app.loading THEN "loading"
    ELSE IF app.user = {} THEN "signin"
    ELSE IF app.currentPage = "search" THEN "search"
    ELSE IF app.currentPage = "school" THEN "details"
    ELSE IF app.currentPage = "compare" THEN "compare"
    ELSE "home"

\* an App that renders the pages whatever the auth state
ViewUngated(app) ==
    IF app.currentPage = "search" THEN "search"
    ELSE IF app.currentPage = "school"
         THEN (IF app.selectedSchoolId # "" THEN "details" ELSE "home")
    ELSE IF app.currentPage = "compare" THEN "compare"
    ELSE "home"

\* what App returns: the loading screen, the sign-in screen, or the Header and
\* the view renderPage() selects
View(app) ==
    IF app.loading THEN "loading"
    ELSE IF app.user = {} THEN "signin"
    ELSE IF app.currentPage = "search" THEN "search"
    ELSE IF app.currentPage = "school"
         THEN (IF app.selectedSchoolId # "" THEN "details" ELSE "home")
    ELSE IF app.currentPage = "compare" THEN "compare"
    ELSE "home"

\* a render of the tree threw before: nothing is mounted any more
AppDown == cmpCrashed \/ homeCrashed

\* the Header is rendered (with one of the four views below it)
HeaderRendered(app) == ~AppDown /\ View(app) \in {"home", "search", "details", "compare"}

\* a Compare view that is hidden rather than unmounted
CmpAfterRenderKept(from, to, st) ==
    IF to = "compare" /\ st.cause = "unmount" THEN CmpMounted ELSE st

\* the Compare view after App rendered view `to` where it had rendered `from`
CmpAfterRender(from, to, st) ==
    IF to = "compare"
    THEN (IF from = "compare" THEN st ELSE CmpMounted)
    ELSE CmpUnmounted

SearchAfterRender(from, to, st, query) ==
    IF to = "search"
    THEN (IF from = "search" THEN st ELSE SearchMounted(query))
    ELSE SearchUnmounted

\* a Home view that is hidden rather than unmounted
HomeAfterRenderKept(from, to, st) ==
    IF to = "home" /\ st.issued = 0 THEN HomeMounted ELSE st

HomeAfterRender(from, to, st) ==
    IF to = "home"
    THEN (IF from = "home" THEN st ELSE HomeMounted)
    ELSE HomeUnmounted

\* a view that stays mounted runs its effect again when schoolId changed
DetailsAfterRender(from, to, st, schoolId) ==
    IF to = "details"
    THEN (IF from = "details"
          THEN (IF schoolId = st.schoolId THEN st
                ELSE DetailsEffect([st EXCEPT !.schoolId = schoolId]))
          ELSE DetailsMounted(schoolId))
    ELSE DetailsUnmounted

AppSet(app) ==
    /\ user' = app.user
    /\ appLoading' = app.loading
    /\ currentPage' = app.currentPage
    /\ selectedSchoolId' = app.selectedSchoolId
    /\ appSearchQuery' = app.searchQuery

\* App takes the state `app` and React renders it: views of another type than
\* the one rendered before are unmounted, the new one is mounted
AppRender(app) ==
    /\ AppSet(app)
    /\ leftSelected' = IF View(App) = "compare" /\ View(app) # "compare"
                       THEN selectedSchools # <<>> ELSE leftSelected
    /\ CmpSet(CmpAfterRender(View(App), View(app), Cmp))
    /\ cmpCrashed' = cmpCrashed
    /\ SearchSet(SearchAfterRender(View(App), View(app), Srch, app.searchQuery))
    /\ HomeSet(HomeAfterRender(View(App), View(app), Home))
    /\ homeCrashed' = homeCrashed
    /\ DetSet(DetailsAfterRender(View(App), View(app), Det, app.selectedSchoolId))
    /\ UNCHANGED starVars

\* App as constructed: nothing but the loading screen is rendered
AppInit ==
    /\ user = AppConstructed.user
    /\ appLoading = AppConstructed.loading
    /\ currentPage = AppConstructed.currentPage
    /\ selectedSchoolId = AppConstructed.selectedSchoolId
    /\ appSearchQuery = AppConstructed.searchQuery
    /\ leftSelected = FALSE

\* App signed in and showing `page`, for a view considered on its own
AppHolding(page, query) ==
    /\ user = {"u1"}
    /\ appLoading = FALSE
    /\ currentPage = page
    /\ selectedSchoolId = ""
    /\ appSearchQuery = query
    /\ leftSelected = FALSE

\* the auth service reports a state
AuthStateChanged(u, isLoading) ==
    /\ ~AppDown
    /\ onAuthStateChanged(App, u, isLoading) # App
    /\ AppRender(onAuthStateChanged(App, u, isLoading))

\* a call of navigateTo with any arguments of its type
NavigateTo(page, schoolId, query) ==
    /\ ~AppDown
    /\ AppRender(navigateTo(App, page, schoolId, query))
    /\ detIssued' <= MaxDetRequests

\* the arguments navigateTo's type admits
SchoolIdArgs == {{}, {""}} \cup {{id} : id \in SchoolIds}

QueryArgs == {{}} \cup {{q} : q \in TypedTexts}

RouterNext ==
    \/ \E u \in {{}} \cup {{x} : x \in Users}, l \in BOOLEAN : AuthStateChanged(u, l)
    \/ \E page \in Pages, schoolId \in SchoolIdArgs, query \in QueryArgs :
          NavigateTo(page, schoolId, query)

\* a click on Home, Find Schools or Compare in the Header
HeaderNavigate(page) ==
    /\ HeaderRendered(App)
    /\ AppRender(navigateTo(App, page, {}, {}))

\* Header.handleSearch with q typed in the Header's search box: onSearch
HeaderSearch(q) ==
    /\ HeaderRendered(App)
    /\ Truthy(Trim(q))
    /\ AppRender(navigateTo(App, "search", {}, {Trim(q)}))

\* HomePage.handleSearch with q typed in the hero search box
HomeSearch(q) ==
    /\ HeaderRendered(App) /\ View(App) = "home"
    /\ Truthy(Trim(q))
    /\ AppRender(navigateTo(App, "search", {}, {Trim(q)}))

\* a card that navigates to the school page without the id
HomeOpenSchoolNoId(id) ==
    /\ HeaderRendered(App) /\ View(App) = "home"
    /\ ~homeLoading /\ id \in Ids(featuredSchools)
    /\ AppRender(navigateTo(App, "school", {}, {}))

\* a click on the card of a featured school
HomeOpenSchool(id) ==
    /\ HeaderRendered(App) /\ View(App) = "home"
    /\ ~homeLoading /\ id \in Ids(featuredSchools)
    /\ AppRender(navigateTo(App, "school", {id}, {}))

\* a click on View All Schools
HomeBrowse ==
    /\ HeaderRendered(App) /\ View(App) = "home"
    /\ AppRender(navigateTo(App, "search", {}, {}))

\* a click on the card of a search result
SearchOpenSchool(id) ==
    /\ HeaderRendered(App) /\ View(App) = "search"
    /\ ~loading /\ id \in Ids(schools)
    /\ AppRender(navigateTo(App, "school", {id}, {}))

\* a click on Back to Search, on the "not found" screen or above the details
DetailsBack ==
    /\ HeaderRendered(App) /\ View(App) = "details"
    /\ ~SkeletonDisplayed(Det)
    /\ AppRender(navigateTo(App, "search", {}, {}))

\* a click on View Details in the comparison table
CompareViewDetails(id) ==
    /\ HeaderRendered(App) /\ View(App) = "compare"
    /\ TableRendered(Cmp) /\ id \in Ids(selectedSchools)
    /\ AppRender(navigateTo(App, "school", {id}, {}))

\* a click on Browse Schools in the empty state of the Compare view
CompareBrowse ==
    /\ HeaderRendered(App) /\ View(App) = "compare"
    /\ selectedSchools = <<>>
    /\ AppRender(navigateTo(App, "search", {}, {}))

\* a step of the mounted Compare view
AppCompareStep ==
    /\ HeaderRendered(App) /\ View(App) = "compare"
    /\ CompareNext
    /\ Len(searchResults') <= MaxAppListed

\* a step of the mounted Search view
AppSearchStep ==
    /\ HeaderRendered(App) /\ View(App) = "search"
    /\ SearchNext
    /\ Len(schools') <= MaxAppListed

\* the list() promise of loadFeaturedSchools is fulfilled with res
HomeResolve(res) ==
    /\ HeaderRendered(App) /\ View(App) = "home"
    /\ homeInflight
    /\ res \in Responses(HomeRequest.limit) /\ Len(res) <= MaxAppListed
    /\ HomeRender(loadFeaturedResolved(Home, res))
    /\ UNCHANGED <<cmpVars, searchVars, starVars, detVars, appVars>>

\* the list() promise of loadFeaturedSchools is rejected
HomeReject ==
    /\ HeaderRendered(App) /\ View(App) = "home"
    /\ homeInflight
    /\ HomeRender(loadFeaturedRejected(Home))
    /\ UNCHANGED <<cmpVars, searchVars, starVars, detVars, appVars>>

\* a list() promise of SchoolDetailsPage is fulfilled with res
DetailsResolve(r, res) ==
    /\ HeaderRendered(App) /\ View(App) = "details"
    /\ r \in detInflight
    /\ IF r.collection = "schools"
       THEN res \in SchoolAnswers(r.id) /\ DetSet(loadSchoolDetailsResolved(Det, r, res))
       ELSE res \in ReviewAnswers(r.id) /\ DetSet(loadReviewsResolved(Det, r, res))
    /\ UNCHANGED <<cmpVars, searchVars, starVars, homeVars, appVars>>

\* a list() promise of SchoolDetailsPage is rejected
DetailsReject(r) ==
    /\ HeaderRendered(App) /\ View(App) = "details"
    /\ r \in detInflight
    /\ IF r.collection = "schools"
       THEN DetSet(loadSchoolDetailsRejected(Det, r))
       ELSE DetSet(loadReviewsRejected(Det, r))
    /\ UNCHANGED <<cmpVars, searchVars, starVars, homeVars, appVars>>

AppNext ==
    \/ \E u \in {{}} \cup {{x} : x \in Users}, l \in BOOLEAN : AuthStateChanged(u, l)
    \/ \E page \in {"home", "search", "compare"} : HeaderNavigate(page)
    \/ \E q \in TypedTexts : HeaderSearch(q)
    \/ \E q \in TypedTexts : HomeSearch(q)
    \/ \E id \in SchoolIds : HomeOpenSchool(id)
    \/ HomeBrowse
    \/ \E id \in SchoolIds : SearchOpenSchool(id)
    \/ DetailsBack
    \/ \E id \in SchoolIds : CompareViewDetails(id)
    \/ CompareBrowse
    \/ AppCompareStep
    \/ AppSearchStep
    \/ \E res \in Answers : HomeResolve(res)
    \/ HomeReject
    \/ \E r \in detInflight :
          \E res \in SchoolAnswers(r.id) \cup ReviewAnswers(r.id) : DetailsResolve(r, res)
    \/ \E r \in detInflight : DetailsReject(r)

\* the steps of the Compare and Search views, each visit cut after its first
\* request
LoadCompareStep == AppCompareStep /\ cmpIssued' <= MaxLoadRequests

LoadSearchStep == AppSearchStep /\ issued' <= MaxLoadRequests

\* a pending request of the School-details view settles, one way or the other
DetailsSettle ==
    \E r \in detInflight :
        \/ DetailsReject(r)
        \/ \E res \in SchoolAnswers(r.id) \cup ReviewAnswers(r.id) : DetailsResolve(r, res)

LoadNext ==
    \/ \E u \in {{}} \cup {{x} : x \in Users}, l \in BOOLEAN : AuthStateChanged(u, l)
    \/ \E page \in {"home", "search", "compare"} : HeaderNavigate(page)
    \/ \E q \in TypedTexts : HeaderSearch(q)
    \/ \E q \in TypedTexts : HomeSearch(q)
    \/ \E id \in SchoolIds : HomeOpenSchool(id)
    \/ HomeBrowse
    \/ \E id \in SchoolIds : SearchOpenSchool(id)
    \/ DetailsBack
    \/ CompareBrowse
    \/ LoadCompareStep
    \/ LoadSearchStep
    \/ \E res \in Answers : HomeResolve(res)
    \/ HomeReject
    \/ DetailsSettle

\* no star row is held
StarsAbsent == stars = {}

vars == <<cmpVars, searchVars, starVars, homeVars, detVars, appVars>>

(***************************************************************************)
(* The query builder and addSchool on their own: a view in any state of    *)
(* its inputs, and one call.                                               *)
(***************************************************************************)
\* the values filters.schoolType takes: the lists without repetition
TypeLists ==
    {l \in UNION {[1..n -> Range(schoolTypes)] : n \in 0..Len(schoolTypes)} :
        \A i, j \in 1..Len(l) : l[i] = l[j] => i = j}

\* sortBy is typed string: the three options and one value outside them
SortValues == Range(sortOptions) \cup {"distance"}

AllFilters ==
    [schoolType : TypeLists, gradeLevel : {""} \cup Range(gradeLevels),
     minRating : Range(minRatingOptions), sortBy : SortValues]

\* SearchPage holding the text q and the filters f, no list() call made yet
SearchHolding(q, f) ==
    [SearchUnmounted EXCEPT !.searchQuery = q, !.filters = f, !.loading = TRUE]

QueryInit ==
    \E q \in Texts : \E f \in AllFilters :
        /\ searchQuery = SearchHolding(q, f).searchQuery
        /\ schools = SearchHolding(q, f).schools
        /\ loading = SearchHolding(q, f).loading
        /\ showFilters = SearchHolding(q, f).showFilters
        /\ filters = SearchHolding(q, f).filters
        /\ inflight = SearchHolding(q, f).inflight
        /\ issued = SearchHolding(q, f).issued
        /\ lastRequest = SearchHolding(q, f).lastRequest
        /\ lastFulfilled = SearchHolding(q, f).lastFulfilled

\* one call of searchSchools()
QueryCall ==
    /\ issued = 0
    /\ SearchSet(searchSchoolsCall(Srch))
    /\ UNCHANGED searchOthers

\* one click on Clear All, whatever the text and the filters
ClearCall ==
    /\ issued = 0
    /\ SearchSet(SearchEffect(clearFilters(Srch)))
    /\ UNCHANGED searchOthers

\* the School objects of the collection as ComparePage maps them
CompareSchools == MapCompare(Store)

\* the schools whose rendering does not throw
RatedSchools == SelectSeq(CompareSchools, LAMBDA sc : ~ToFixedThrows(sc.overallRating))

\* the lists of at most n entries of s, without repetition
DistinctLists(s, n) ==
    {l \in UNION {[1..k -> Range(s)] : k \in 0..n} :
        \A i, j \in 1..Len(l) : l[i] = l[j] => i = j}

\* ComparePage holding a selection, results, a text and showSearch
CmpHolding(sel, res, q, show) ==
    [CmpMounted EXCEPT !.selectedSchools = sel, !.searchResults = res,
                       !.searchQuery = q, !.showSearch = show,
                       !.timers = {CmpClosure(q, sel)},
                       !.timeoutId = {CmpClosure(q, sel)},
                       !.cause = "onChange"]

AddInit ==
    \E sel \in DistinctLists(RatedSchools, 4) : \E a \in Answers :
    \E q \in TypedTexts : \E show \in BOOLEAN :
        LET st == CmpHolding(sel, WithoutIds(MapCompare(a), Ids(sel)), q, show)
        IN /\ ~CompareRenderThrows(st)
           \* with 4 members the search box is not rendered: the add that made
           \* them 4 cleared the text and closed the list
           /\ Len(sel) = 4 => (q = <<>> /\ ~show)
           /\ selectedSchools = st.selectedSchools
           /\ cmpSearchQuery = st.searchQuery
           /\ searchResults = st.searchResults
           /\ cmpLoading = st.loading
           /\ showSearch = st.showSearch
           /\ cmpTimers = st.timers
           /\ cmpTimeoutId = st.timeoutId
           /\ cmpInflight = st.inflight
           /\ cmpIssued = st.issued
           /\ cmpLastRequest = st.lastRequest
           /\ cmpCause = st.cause
           /\ cmpCrashed = FALSE

\* one call of addSchool(school), whatever is displayed; cmpCause records the call
AddSchoolCall(school) ==
    /\ ~cmpCrashed
    /\ cmpCause # "addSchool"
    /\ CmpRender([SearchQueryEffect(Cmp, addSchool(Cmp, school), "addSchool")
                     EXCEPT !.cause = "addSchool"])
    /\ UNCHANGED cmpOthers

AddNext == \E i \in 1..Len(CompareSchools) : AddSchoolCall(CompareSchools[i])

\* the ids removeSchool is called with: those of the collection and one of no school
RemovableIds == SchoolIds \cup {"s0"}

\* one call of removeSchool(schoolId), whatever is selected; cmpCause records the call
RemoveSchoolCall(schoolId) ==
    /\ ~cmpCrashed
    /\ cmpCause # "removeSchool"
    /\ CmpRender([removeSchool(Cmp, schoolId) EXCEPT !.cause = "removeSchool"])
    /\ UNCHANGED cmpOthers

RemoveNext == \E id \in RemovableIds : RemoveSchoolCall(id)

(***************************************************************************)
(* renderStars.  The four views each hold a copy; those of the Compare and *)
(* Home views pass the rating as it is, those of the Search and Details    *)
(* views replace a falsy rating by 0 first.  Ratings are in tenths.        *)
(***************************************************************************)
\* Array.from({ length: 5 }, ...)
StarCount == 5

\* Math.floor of a rating in tenths, in whole stars
MathFloor(rating) == ToNumber(rating) \div 10

\* the class of the star at position i (0-based), by name
Glyph(i, rating) ==
    IF i < MathFloor(rating) THEN "full"
    ELSE IF i * 10 < ToNumber(rating) THEN "half"
    ELSE "empty"

renderStarsRounded(rating) ==
    [n \in 1..StarCount |->
        IF n - 1 < (ToNumber(rating) + 5) \div 10 THEN "full"
        ELSE IF (n - 1) * 10 < ToNumber(rating) THEN "half"
        ELSE "empty"]

renderStars(rating) == [n \in 1..StarCount |-> Glyph(n - 1, rating)]

\* const safeRating = rating || 0
renderStarsSafe(rating) == renderStars(OrZero(rating))

StarViews == {"compare", "home", "search", "details"}

\* the ratings a view may pass: 0.0 to 5.0, or none
StarRatings == 0..(StarCount * 10) \cup {Absent}

StarsInit ==
    /\ stars = {}

\* a view renders the star row of a rating
RenderStars(view, rating) ==
    /\ stars' = {[view |-> view, rating |-> rating,
                  glyphs |-> IF view \in {"search", "details"}
                             THEN renderStarsSafe(rating)
                             ELSE renderStars(rating)]}
    /\ UNCHANGED <<cmpVars, searchVars, homeVars, detVars, appVars>>

StarsNext == \E view \in StarViews, rating \in StarRatings : RenderStars(view, rating)

(***************************************************************************)
(* Specifications.  SpecCompare and SpecSearch: one view mounted, the user *)
(* and the record store acting on it in any order.  SpecQuery and SpecAdd: *)
(* one call of searchSchools(), of addSchool(), from any state of their    *)
(* inputs.                                                                 *)
(***************************************************************************)
InitCompare ==
    /\ CompareInit
    /\ SearchAbsent /\ StarsAbsent /\ HomeAbsent /\ DetailsAbsent
    /\ AppHolding("compare", <<>>)

InitSearch ==
    /\ SearchInit
    /\ CompareAbsent /\ StarsAbsent /\ HomeAbsent /\ DetailsAbsent
    /\ AppHolding("search", searchQuery)

InitQuery ==
    /\ QueryInit
    /\ CompareAbsent /\ StarsAbsent /\ HomeAbsent /\ DetailsAbsent
    /\ AppHolding("search", <<>>)

InitAdd ==
    /\ AddInit
    /\ SearchAbsent /\ StarsAbsent /\ HomeAbsent /\ DetailsAbsent
    /\ AppHolding("compare", <<>>)

SpecCompare == InitCompare /\ [][CompareNext]_vars

SpecSearch == InitSearch /\ [][SearchNext]_vars

SpecQuery == InitQuery /\ [][QueryCall]_vars

SpecClear == InitQuery /\ [][ClearCall]_vars

SpecAdd == InitAdd /\ [][AddNext]_vars

SpecRemove == InitAdd /\ [][RemoveNext]_vars

InitStars ==
    /\ StarsInit
    /\ CompareAbsent /\ SearchAbsent /\ HomeAbsent /\ DetailsAbsent
    /\ AppHolding("home", <<>>)

InitRouter ==
    /\ AppInit
    /\ CompareAbsent /\ SearchAbsent /\ StarsAbsent /\ HomeAbsent /\ DetailsAbsent

SpecStars == InitStars /\ [][StarsNext]_vars

SpecRouter == InitRouter /\ [][RouterNext]_vars

SpecApp == InitRouter /\ [][AppNext]_vars

\* the App with a record store that settles every request of a mounted view
FairSpecLoad ==
    /\ InitRouter /\ [][LoadNext]_vars
    /\ WF_vars(/\ View(App) = "compare"
               /\ \E r \in cmpInflight :
                     CmpReject(r) \/ \E res \in Responses(MaxAppListed) : CmpResolve(r, res))
    /\ WF_vars(/\ View(App) = "search"
               /\ \E r \in inflight :
                     SearchReject(r) \/ \E res \in Responses(MaxAppListed) : SearchResolve(r, res))
    /\ WF_vars(HomeReject \/ \E res \in Answers : HomeResolve(res))
    /\ WF_vars(DetailsSettle)

(***************************************************************************)
(* The comparison set                                                      *)
(***************************************************************************)
\* C1: in the Compare view, after any sequence of query edits, timer firings,
\* search responses in any order (stale ones included), addSchool clicks on
\* displayed results and removeSchool clicks, selectedSchools has at most 4
\* members and no two of them share an id.
C1_SelectionBounded ==
    /\ Len(selectedSchools) <= 4
    /\ \A i, j \in 1..Len(selectedSchools) :
          selectedSchools[i].id = selectedSchools[j].id => i = j

\* a stale response has put a school that is already selected back into the
\* displayed results, where it can be clicked
C1_Witness ==
    /\ ~cmpCrashed
    /\ ResultsDisplayed(Cmp)
    /\ \E i \in 1..Len(searchResults) : searchResults[i].id \in Ids(selectedSchools)

\* C2: addSchool(s), when selectedSchools has fewer than 4 members and none
\* with s.id, leaves selectedSchools equal to the previous sequence with s
\* appended as its last element; the earlier members keep their order.
C2_AddAppends ==
    [][\A i \in 1..Len(searchResults) :
          LET s == searchResults[i]
          IN (/\ AddSchool(s)
              /\ Len(selectedSchools) < 4
              /\ s.id \notin Ids(selectedSchools))
             => /\ Len(selectedSchools') = Len(selectedSchools) + 1
                /\ selectedSchools'[Len(selectedSchools')] = s
                /\ SubSeq(selectedSchools', 1, Len(selectedSchools)) = selectedSchools]_vars

\* a third school has just been added behind two others
C2_Witness ==
    /\ ~cmpCrashed
    /\ cmpCause = "addSchool"
    /\ Len(selectedSchools) = 3
    /\ selectedSchools[1].id = "s2"
    /\ selectedSchools[3].id = "s1"

\* C3: addSchool(s), when selectedSchools already has 4 members or already
\* has a member with s.id, changes nothing: selectedSchools, searchResults,
\* searchQuery and showSearch keep their values.
C3_AddNoOp ==
    [][\A i \in 1..Len(CompareSchools) :
          LET s == CompareSchools[i]
          IN (/\ AddSchoolCall(s)
              /\ (Len(selectedSchools) >= 4 \/ s.id \in Ids(selectedSchools)))
             => UNCHANGED <<selectedSchools, searchResults, cmpSearchQuery, showSearch>>]_vars

\* addSchool was called with a school that is already one of the 3 members,
\* the search text still typed and the list open: nothing has changed
C3_Witness ==
    /\ cmpCause = "addSchool"
    /\ Len(selectedSchools) = 3
    /\ selectedSchools[1].id = "s4"
    /\ cmpSearchQuery = <<"a">>
    /\ showSearch

(***************************************************************************)
(* The query builder of the Search view                                    *)
(***************************************************************************)
\* the text has a character that is not white space
NonBlank(t) == \E i \in 1..Len(t) : t[i] # " "

\* C4: for every filter state of the Search view, the where-clause sent to the
\* record store has exactly these clauses: the OR clause on the text iff the
\* text is non-empty after trimming, the school_type "in" clause iff schoolType
\* is non-empty, the grade_levels "contains" clause iff gradeLevel is non-empty,
\* the overall_rating "gte" clause iff minRating > 0; when none applies the
\* request carries no filter at all.
C4_WhereClause ==
    \A req \in lastRequest :
        IF \/ NonBlank(searchQuery)
           \/ filters.schoolType # <<>>
           \/ filters.gradeLevel # ""
           \/ filters.minRating > 0
        THEN \E w \in req.where :
               /\ req.where = {w}
               /\ DOMAIN w = WhereKeys
               /\ w.OR = IF NonBlank(searchQuery)
                         THEN {<<[name |-> [contains |-> searchQuery]],
                                 [city |-> [contains |-> searchQuery]],
                                 [address |-> [contains |-> searchQuery]]>>}
                         ELSE {}
               /\ w.school_type = IF filters.schoolType # <<>>
                                  THEN {[in |-> filters.schoolType]} ELSE {}
               /\ w.grade_levels = IF filters.gradeLevel # ""
                                   THEN {[contains |-> filters.gradeLevel]} ELSE {}
               /\ w.overall_rating = IF filters.minRating > 0
                                     THEN {[gte |-> filters.minRating]} ELSE {}
        ELSE req.where = {}

\* a request for a text and minRating 4 alone: the OR clause and
\* overall_rating >= 4, nothing else
C4_Witness ==
    /\ searchQuery = <<"a", " ">>
    /\ filters.minRating = 40
    /\ \E req \in lastRequest : \E w \in req.where :
          /\ \E c \in w.OR : c[1].name.contains = <<"a", " ">>
          /\ w.overall_rating = {[gte |-> 40]}
          /\ w.school_type = {}
          /\ w.grade_levels = {}

\* C5: the sort mapping of the Search view is total: "rating" gives
\* overall_rating descending, "reviews" total_reviews descending, "name" name
\* ascending, every other value overall_rating descending; exactly one ordering
\* key is sent.
C5_SortMapping ==
    \A req \in lastRequest :
        /\ Len(req.orderBy) = 2
        /\ filters.sortBy = "rating" => req.orderBy = <<"overall_rating", "desc">>
        /\ filters.sortBy = "reviews" => req.orderBy = <<"total_reviews", "desc">>
        /\ filters.sortBy = "name" => req.orderBy = <<"name", "asc">>
        /\ filters.sortBy \notin {"rating", "reviews", "name"}
              => req.orderBy = <<"overall_rating", "desc">>

\* a request was built for a sortBy outside the three options
C5_Witness ==
    /\ filters.sortBy = "distance"
    /\ \E req \in lastRequest : req.orderBy = <<"overall_rating", "desc">>

(***************************************************************************)
(* The debounce timer of the compare-add search box                        *)
(***************************************************************************)
\* C6 as stated: a debounce timer set by an edit of the text, when it elapses,
\* issues exactly one request, and that request carries the final text.
C6_FinalTimerIssuesRequest ==
    [][\A t \in cmpTimers :
          (cmpCause = "onChange" /\ CmpTimerFire(t))
          => /\ cmpIssued' = cmpIssued + 1
             /\ cmpLastRequest' = {CompareRequest(cmpSearchQuery)}]_vars

\* C6: every change of the query text cancels the pending debounce timer and
\* starts a new one, so at most one timer is pending and it carries the current
\* text; the timer that elapses issues exactly one request, carrying the final
\* text, when that text is non-empty after trimming, and no request when it is
\* empty or blank; no request is issued in any other step, hence none for a
\* superseded text.
C6_Debounce ==
    /\ [](/\ Cardinality(cmpTimers) <= 1
          /\ \A t \in cmpTimers : t.query = cmpSearchQuery)
    /\ [][/\ ((cmpSearchQuery' # cmpSearchQuery /\ ~cmpCrashed')
                => cmpTimers' = {CmpClosure(cmpSearchQuery', selectedSchools')})
           /\ (\A t \in cmpTimers :
                  CmpTimerFire(t)
                  => (/\ cmpTimers' = {}
                      /\ IF NonBlank(cmpSearchQuery)
                         THEN /\ cmpIssued' = cmpIssued + 1
                              /\ cmpLastRequest' = {CompareRequest(cmpSearchQuery)}
                         ELSE UNCHANGED <<cmpIssued, cmpLastRequest, cmpInflight>>))
           /\ ((cmpIssued' # cmpIssued /\ ~cmpCrashed')
                => \E t \in cmpTimers : CmpTimerFire(t))]_vars

\* after two edits a single timer is pending, and a request for an earlier
\* burst is still in flight
C6_Witness ==
    /\ cmpCause = "onChange"
    /\ cmpSearchQuery = <<"a">>
    /\ Cardinality(cmpTimers) = 1
    /\ cmpIssued = 1
    /\ cmpInflight # {}

(***************************************************************************)
(* Overlapping requests, loading, failures                                 *)
(***************************************************************************)
\* C7: overlapping Search-view requests are never cancelled, and the displayed
\* result set is that of the response that arrived last, whatever the order in
\* which the requests were issued (it may belong to an older filter state).
C7_LastResponseWins ==
    /\ [](\A lf \in lastFulfilled : schools = MapSearch(lf.value))
    /\ [][\/ inflight \subseteq inflight'
           \/ \E r \in inflight : inflight' = inflight \ {r}]_vars

\* two overlapping requests have both been answered, the one issued first
\* last: its records are displayed, under a text that is no longer current
C7_Witness ==
    /\ inflight = {}
    /\ issued = 2
    /\ schools # <<>>
    /\ \E lf \in lastFulfilled :
          /\ lf.nth = 2
          /\ lf.gen = 1
          /\ lf.request # SearchRequest(searchQuery, filters)

\* C8: while a data fetch of the view is in flight, the view shows its loading
\* placeholder, also when several requests overlap.
C8_LoadingWhileInFlight == inflight # {} => loading

\* C9: when a list query fails, the displayed result set is empty, whatever
\* was displayed before.
C9_FailureShowsNoResults ==
    [][\A r \in inflight : SearchReject(r) => schools' = <<>>]_vars

\* C10: the result mapping turns an absent rating of a backend record into 0,
\* so that the ratings held by the Compare view are numbers and rendering a
\* record with an absent rating does not fail.
C10_AbsentRatingIsZero ==
    /\ ~cmpCrashed
    /\ \A i \in 1..Len(searchResults) :
          /\ IsNumber(searchResults[i].overallRating)
          /\ IsNumber(searchResults[i].academicsRating)
          /\ IsNumber(searchResults[i].facilitiesRating)
          /\ IsNumber(searchResults[i].teachersRating)
          /\ IsNumber(searchResults[i].safetyRating)
          /\ IsNumber(searchResults[i].extracurricularsRating)

(***************************************************************************)
(* The comparison table                                                    *)
(***************************************************************************)
\* C11: getHighestRating(category) returns 0 when selectedSchools is empty and
\* otherwise the maximum of the named rating field over all members.
C11_HighestRating ==
    \A category \in RatingCategories :
        LET h == getHighestRating(Cmp, category)
        IN IF selectedSchools = <<>> THEN h = 0
           ELSE /\ \E i \in 1..Len(selectedSchools) : selectedSchools[i][category] = h
                /\ \A i \in 1..Len(selectedSchools) : selectedSchools[i][category] <= h

\* three members with academics 4.0, 4.5, 4.5, in that order: the highest is 4.5
C11_Witness ==
    /\ ~cmpCrashed
    /\ Len(selectedSchools) = 3
    /\ Column(selectedSchools, "academicsRating") = <<40, 45, 45>>
    /\ getHighestRating(Cmp, "academicsRating") = 45

\* C12: in the comparison table, for each of the six rating categories a
\* school's cell is styled as best exactly when its value equals the highest of
\* that category: all schools tying for the maximum are highlighted, at least
\* one cell per category is, and no other cell is.
C12_BestCellsHighlighted ==
    TableRendered(Cmp) =>
        \A category \in RatingCategories :
            /\ \A i \in 1..Len(selectedSchools) :
                  CellClass(Cmp, i, category) = "text-green-600"
                  <=> \A j \in 1..Len(selectedSchools) :
                         selectedSchools[j][category] <= selectedSchools[i][category]
            /\ \E i \in 1..Len(selectedSchools) :
                  CellClass(Cmp, i, category) = "text-green-600"

\* C13: removeSchool(id) yields selectedSchools without the entry whose id
\* matches, the remaining entries in their previous order; if no entry has that
\* id, selectedSchools is unchanged.
C13_RemoveFilters ==
    [][\A id \in RemovableIds :
          RemoveSchoolCall(id)
          => /\ selectedSchools' = SelectSeq(selectedSchools, LAMBDA m : m.id # id)
             /\ id \notin Ids(selectedSchools) => selectedSchools' = selectedSchools]_vars

\* removeSchool was called with the id of the second of four members: the
\* first, third and fourth are left, in that order
C13_Witness ==
    /\ cmpCause = "removeSchool"
    /\ Len(selectedSchools) = 3
    /\ selectedSchools[1].id = "s4"
    /\ selectedSchools[2].id = "s1"
    /\ selectedSchools[3].id = "s3"

(***************************************************************************)
(* C20  A rendered star row of a rating r in [0,5] has, at each position i *)
(* in 0..4, a full star if i < floor(r), a half star if floor(r) <= i < r, *)
(* an empty star otherwise; it has exactly one half star when r has a      *)
(* nonzero fractional part and none otherwise.  (r in tenths: position i   *)
(* is below floor(r) when 10 * (i + 1) <= r.)                              *)
(***************************************************************************)
C20_StarPattern ==
    \A row \in stars :
        row.rating # Absent =>
            /\ \A i \in 0..(StarCount - 1) :
                  row.glyphs[i + 1] =
                      IF 10 * (i + 1) <= row.rating THEN "full"
                      ELSE IF 10 * i < row.rating THEN "half"
                      ELSE "empty"
            /\ Cardinality({n \in 1..StarCount : row.glyphs[n] = "half"})
                  = IF row.rating % 10 # 0 THEN 1 ELSE 0
            /\ row.rating = 35 => row.glyphs = <<"full", "full", "full", "half", "empty">>
            /\ row.rating = 0 => row.glyphs = [n \in 1..StarCount |-> "empty"]
            /\ row.rating = 50 => row.glyphs = [n \in 1..StarCount |-> "full"]

C20_Witness ==
    \E row \in stars :
        /\ row.view = "compare"
        /\ row.rating = 35
        /\ row.glyphs[4] = "half"

(***************************************************************************)
(* C18  In the Search view every step that changes the search text or a    *)
(* filter field issues, in that same step, exactly one query, built from   *)
(* the new text and filters; a submit of the form issues exactly one query *)
(* built from the current text and filters, which it leaves as they are.   *)
(***************************************************************************)
C18_ChangeIssuesQuery ==
    [][/\ (searchQuery' # searchQuery \/ filters' # filters) =>
             /\ issued' = issued + 1
             /\ lastRequest' = {SearchRequest(searchQuery', filters')}
             /\ inflight' = inflight \cup
                    {[gen |-> issued + 1, request |-> SearchRequest(searchQuery', filters')]}
       /\ HandleSearch =>
             /\ issued' = issued + 1
             /\ lastRequest' = {SearchRequest(searchQuery, filters)}
             /\ inflight' = inflight \cup
                    {[gen |-> issued + 1, request |-> SearchRequest(searchQuery, filters)]}
             /\ searchQuery' = searchQuery /\ filters' = filters]_vars

C18_Witness ==
    /\ issued = 2
    /\ searchQuery = <<"a">>
    /\ filters.minRating = 40
    /\ filters.schoolType = <<>>
    /\ lastRequest = {SearchRequest(<<"a">>, filters)}
    /\ {r.gen : r \in inflight} = {1, 2}

(***************************************************************************)
(* C16  Whatever page is current, a call navigateTo(p, ...) leaves         *)
(* currentPage equal to p: the router refuses no transition.               *)
(***************************************************************************)
C16_NoTransitionValidation ==
    [][\A page \in Pages, schoolId \in SchoolIdArgs, query \in QueryArgs :
          NavigateTo(page, schoolId, query) => currentPage' = page]_vars

C16_Witness ==
    /\ currentPage = "compare"
    /\ View(App) = "compare"
    /\ selectedSchoolId = "s1"
    /\ appSearchQuery = <<"a">>

(***************************************************************************)
(* C17  When currentPage is 'school' and no school id is selected, what    *)
(* the router renders below the Header is the Home view: HomePage is       *)
(* mounted and SchoolDetailsPage is not.                                   *)
(***************************************************************************)
C17_SchoolWithoutIdIsHome ==
    (currentPage = "school" /\ selectedSchoolId = "" /\ user # {} /\ ~appLoading) =>
        /\ Home = HomeMounted
        /\ Det = DetailsUnmounted
        /\ CompareAbsent
        /\ SearchAbsent

C17_Witness ==
    /\ currentPage = "school"
    /\ selectedSchoolId = ""
    /\ user = {"u1"}
    /\ ~appLoading
    /\ homeIssued = 1

(***************************************************************************)
(* C14  Every step after which the Compare view is rendered, and before    *)
(* which it was not (the router had left the compare page, to home, to     *)
(* search or to a school through View Details, or the auth gate had        *)
(* closed), leaves selectedSchools empty.                                  *)
(***************************************************************************)
C14_CompareSetNotPersisted ==
    [][(View(App) # "compare" /\ View(App)' = "compare") => selectedSchools' = <<>>]_vars

C14_Witness ==
    /\ View(App) = "compare"
    /\ leftSelected
    /\ selectedSchoolId # ""
    /\ selectedSchools = <<>>
    /\ cmpCause = "mount"

(***************************************************************************)
(* C15  While the auth loading flag is set or no user is signed in, none   *)
(* of the four views is mounted: none holds state, a pending timer or a    *)
(* pending request, and none has issued a query.                           *)
(***************************************************************************)
C15_AuthGate ==
    (appLoading \/ user = {}) =>
        /\ Cmp = CmpUnmounted
        /\ Srch = SearchUnmounted
        /\ Home = HomeUnmounted
        /\ Det = DetailsUnmounted

C15_Witness ==
    /\ user = {}
    /\ ~appLoading
    /\ currentPage = "compare"
    /\ leftSelected
    /\ cmpIssued = 0

(***************************************************************************)
(* C19  In the School-details view, the step in which the school fetch is  *)
(* answered with no record, or fails, leaves the "not found" screen shown, *)
(* and the screen stays while the view does; Back to Search is available   *)
(* on it; and whenever details are shown, they are those of the school     *)
(* whose id the view was given.                                            *)
(***************************************************************************)
C19_NotFound ==
    /\ [](NotFoundDisplayed(Det) /\ View(App) = "details" /\ ~AppDown => ENABLED DetailsBack)
    /\ [](DetailsDisplayed(Det) =>
             /\ detSchoolId = selectedSchoolId
             /\ \A d \in detSchool : d.id = detSchoolId)
    /\ [][/\ \A r \in detInflight :
               (r.collection = "schools" /\ (DetailsResolve(r, <<>>) \/ DetailsReject(r)))
                   => NotFoundDisplayed(Det)'
          /\ (View(App) = "details" /\ NotFoundDisplayed(Det) /\ View(App)' = "details")
                   => NotFoundDisplayed(Det)']_vars

C19_Witness ==
    /\ View(App) = "details"
    /\ detSchoolId = "s2"
    /\ NotFoundDisplayed(Det)
    /\ \A r \in detInflight : r.collection = "reviews"

(***************************************************************************)
(* C21  Every request of the Search view carries limit 50 and every        *)
(* request of the compare-add search box carries limit 10, whatever the    *)
(* text and the filters; neither view holds more results than its limit.   *)
(***************************************************************************)
C21_RequestLimits ==
    /\ \A r \in inflight : r.request.limit = 50
    /\ \A req \in lastRequest : req.limit = 50
    /\ \A req \in cmpLastRequest : req.limit = 10
    /\ Len(schools) <= 50
    /\ Len(searchResults) <= 10

C21_Witness ==
    /\ View(App) = "search"
    /\ issued = 2
    /\ filters.sortBy = "name"
    /\ searchQuery = <<"a">>
    /\ \E req \in lastRequest : req.limit = 50 /\ req.orderBy = <<"name", "asc">>
    /\ Len(schools) = 2

(***************************************************************************)
(* C22  Every step after which App renders another view than before leaves *)
(* the view it enters as freshly mounted: no results, no selection, and    *)
(* for Home, Search and School-details the fetches of the mount effect     *)
(* just issued (one, one and two requests) and nothing else in flight.     *)
(***************************************************************************)
C22_FreshOnEntry ==
    [][View(App)' # View(App) =>
          /\ View(App)' = "home" => Home' = HomeMounted
          /\ View(App)' = "search" => Srch' = SearchMounted(appSearchQuery')
          /\ View(App)' = "details" => Det' = DetailsMounted(selectedSchoolId')
          /\ View(App)' = "compare" => Cmp' = CmpMounted]_vars

C22_Witness ==
    /\ View(App) = "home"
    /\ currentPage = "home"
    /\ Home = HomeMounted
    /\ selectedSchoolId = "s2"
    /\ appSearchQuery = <<"a">>

(***************************************************************************)
(* C23  Every review the School-details view holds has wouldRecommend true *)
(* exactly when the would_recommend of its record is a number greater than *)
(* 0: 0 gives false, 1 gives true, an absent value gives false.            *)
(***************************************************************************)
C23_WouldRecommend ==
    \A i \in 1..Len(reviews) :
        \A k \in 1..Len(ReviewStore) :
            ReviewStore[k].id = reviews[i].id =>
                /\ reviews[i].wouldRecommend <=>
                       (ReviewStore[k].would_recommend # Absent
                            /\ ReviewStore[k].would_recommend > 0)
                /\ ReviewStore[k].would_recommend = 0 => ~reviews[i].wouldRecommend
                /\ ReviewStore[k].would_recommend = 1 => reviews[i].wouldRecommend
                /\ ReviewStore[k].would_recommend = Absent => ~reviews[i].wouldRecommend

C23_Witness ==
    /\ View(App) = "details"
    /\ Len(reviews) = 3
    /\ reviews[1].wouldRecommend
    /\ ~reviews[2].wouldRecommend
    /\ ~reviews[3].wouldRecommend

(***************************************************************************)
(* C24  With a store that settles every request, a loading flag that is    *)
(* set is eventually cleared, in each of the four views (loading of        *)
(* Search, of Compare, of Home, loading and reviewsLoading of School-      *)
(* details), whether the fetch succeeds or fails; and a view with no       *)
(* request in flight shows no loading placeholder.                         *)
(***************************************************************************)
C24_LoadingCleared ==
    /\ [](inflight = {} => ~loading)
    /\ [](cmpInflight = {} => ~cmpLoading)
    /\ [](~homeInflight => ~homeLoading)
    /\ [](detInflight = {} => ~detLoading /\ ~reviewsLoading)
    /\ (loading ~> ~loading)
    /\ (cmpLoading ~> ~cmpLoading)
    /\ (homeLoading ~> ~homeLoading)
    /\ (detLoading ~> ~detLoading)
    /\ (reviewsLoading ~> ~reviewsLoading)

C24_Witness ==
    /\ View(App) = "details"
    /\ detInflight = {}
    /\ ~detLoading /\ ~reviewsLoading
    /\ detSchool = {}
    /\ reviews # <<>>

(***************************************************************************)
(* C25  In the Compare view, searchResults never holds a school whose id   *)
(* is the id of a selected school.                                         *)
(***************************************************************************)
C25_ResultsExcludeSelected ==
    Ids(searchResults) \cap Ids(selectedSchools) = {}

(***************************************************************************)
(* C26  A submit of the Header's search form with a non-blank text q, on   *)
(* whatever page, leaves the Search view rendered with q (trimmed) as its  *)
(* search text, and the query it issues next is built from q.              *)
(***************************************************************************)
C26_HeaderSearchSetsText ==
    [][\A q \in TypedTexts :
          HeaderSearch(q) =>
              /\ View(App)' = "search"
              /\ searchQuery' = Trim(q)
              /\ \A req \in lastRequest' : req = SearchRequest(Trim(q), filters')]_vars

(***************************************************************************)
(* C27  A call of navigateTo sets selectedSchoolId when it is given a      *)
(* non-empty schoolId and leaves it as it is otherwise; it sets the root   *)
(* searchQuery when it is given a query, the empty string included, and    *)
(* leaves it as it is otherwise; a Search view that the call mounts starts *)
(* with the root searchQuery as its text.                                  *)
(***************************************************************************)
C27_NavigateFrame ==
    [][\A page \in Pages, schoolId \in SchoolIdArgs, query \in QueryArgs :
          NavigateTo(page, schoolId, query) =>
              /\ \A id \in schoolId : id # "" => selectedSchoolId' = id
              /\ schoolId \subseteq {""} => selectedSchoolId' = selectedSchoolId
              /\ \A q \in query : appSearchQuery' = q
              /\ query = {} => appSearchQuery' = appSearchQuery
              /\ (View(App) # "search" /\ View(App)' = "search")
                     => searchQuery' = appSearchQuery']_vars

C27_Witness ==
    /\ View(App) = "search"
    /\ Srch = SearchMounted(<<"a">>)
    /\ appSearchQuery = <<"a">>
    /\ selectedSchoolId = "s1"

(***************************************************************************)
(* C28  In every state the App reaches through its Header and its views,   *)
(* currentPage = 'school' implies that a school id is selected; so the     *)
(* Home view is rendered for the home page only, never as the fallback of  *)
(* the school page.                                                        *)
(***************************************************************************)
C28_SchoolPageHasId ==
    /\ currentPage = "school" => selectedSchoolId \in SchoolIds
    /\ View(App) = "home" => currentPage = "home"
    /\ View(App) = "details" => detSchoolId = selectedSchoolId

C28_Witness ==
    /\ currentPage = "school"
    /\ View(App) = "details"
    /\ selectedSchoolId = "s2"
    /\ detSchool # {}
    /\ leftSelected

(***************************************************************************)
(* C29  clearFilters sets schoolType to empty, gradeLevel to empty,        *)
(* minRating to 0 and sortBy to 'rating' and leaves the search text as it  *)
(* is; the query issued in the same step has no filter clause but, for a   *)
(* non-blank text, the text clause, and is ordered by overall_rating       *)
(* descending.                                                             *)
(***************************************************************************)
C29_ClearFilters ==
    [][ClearCall =>
          /\ filters'.schoolType = <<>>
          /\ filters'.gradeLevel = ""
          /\ filters'.minRating = 0
          /\ filters'.sortBy = "rating"
          /\ searchQuery' = searchQuery
          /\ issued' = issued + 1
          /\ Cardinality(lastRequest') = 1
          /\ \A req \in lastRequest' :
                /\ req.orderBy = <<"overall_rating", "desc">>
                /\ \A w \in req.where :
                      /\ Keys(w) = {"OR"}
                      /\ w.OR = {TextClause(searchQuery)}
                /\ req.where = {} <=> ~Truthy(Trim(searchQuery))]_vars

C29_Witness ==
    /\ issued = 1
    /\ filters = DefaultFilters
    /\ searchQuery = <<" ", "a">>
    /\ \E req \in lastRequest : \E w \in req.where : Keys(w) = {"OR"}

(***************************************************************************)
(* C30  In the Compare view, a debounce timer that fires with a text that  *)
(* is empty after trimming issues no request, sets searchResults to empty  *)
(* and leaves loading and the requests in flight as they are; a request    *)
(* still in flight may fill searchResults afterwards.                      *)
(***************************************************************************)
C30_BlankTimer ==
    [][\A t \in cmpTimers :
          (~Truthy(Trim(t.query)) /\ CmpTimerFire(t)) =>
              /\ cmpIssued' = cmpIssued
              /\ cmpLastRequest' = cmpLastRequest
              /\ searchResults' = <<>>
              /\ cmpLoading' = cmpLoading
              /\ cmpInflight' = cmpInflight]_vars

C30_Witness ==
    /\ ~cmpCrashed
    /\ cmpSearchQuery = <<>>
    /\ cmpTimers = {}
    /\ cmpIssued = 1
    /\ cmpInflight = {}
    /\ selectedSchools = <<>>
    /\ searchResults # <<>>

====
